---- MODULE Spec2Model ----
(***************************************************************************)
(* A model of the chess core of src/chess.py: Piece (movement pattern,     *)
(* is_legal_move, legal_moves), Model (the 64-slot chess_map, the moves    *)
(* history, move_unit / undo_move, pawn_transform, is_in_check,            *)
(* is_in_checkmate, game_not_over) and the game() loop.                    *)
(*                                                                         *)
(* A piece object is an identifier 1..N; its fields live in pieces[id].    *)
(* None is 0.  A coordinate is a pair <<x, y>>.  A python exception is an  *)
(* outcome of its own: an operator that can raise returns a record         *)
(* [exc |-> ..., ret |-> ...].                                             *)
(***************************************************************************)
EXTENDS Integers, Sequences, FiniteSets, TLC

VARIABLES
    chess_map,   \* Model.chess_map: index 0..63 -> piece id, or None
    pieces,      \* the Piece objects: id -> [name, player, x, y, movement]
    moves,       \* Model.moves: sequence of <<unit, from_pos, to_pos>>
    turn,        \* game(): the local variable turn
    pc,          \* where the program is: "loop", "asked", "done", "crashed"
    msg,         \* Terminal_view.msg
    call,        \* game(): what the is_in_checkmate() of the last turn gave
    reply        \* what a call made on the model from outside the loop gave

vars == <<chess_map, pieces, moves, turn, pc, msg, call, reply>>

None == 0

\* range(1, 9) of is_inside and of the movement tables; 8 * 8 slots
BoardSize == 8

Coords == 1..BoardSize
Squares == Coords \X Coords
Names == {"pawn", "knight", "bishop", "rock", "queen", "king"}

----------------------------------------------------------------------------
(* python helpers *)

Abs(n) == IF n < 0 THEN -n ELSE n
Min(a, b) == IF a < b THEN a ELSE b
Max(a, b) == IF a < b THEN b ELSE a

\* e in list
Has(s, e) == \E i \in 1..Len(s) : s[i] = e

\* list.index(e), for a list that holds e
IndexOf(s, e) == CHOOSE i \in 1..Len(s) : s[i] = e /\ \A j \in 1..(i - 1) : s[j] # e

\* the list without its i-th element
RemoveAt(s, i) == [k \in 1..(Len(s) - 1) |-> IF k < i THEN s[k] ELSE s[k + 1]]

\* list.remove(e), for a list that holds e: the first occurrence goes
Remove(s, e) == RemoveAt(s, IndexOf(s, e))

\* map(f, list)
Map(f(_), s) == [k \in 1..Len(s) |-> f(s[k])]

\* the elements of a list
Elems(s) == {s[k] : k \in 1..Len(s)}

\* list(set(...)) of offsets.  CPython fixes the order by hashing; the model
\* fixes it by the offsets' lexicographic order.
OffsetKey(o) == (o[1] + 2 * 8) * 8 * 8 + (o[2] + 2 * 8)

RECURSIVE ListOfSet(_)

ListFrom(o, S) == <<o>> \o ListOfSet(S \ {o})

ListOfSet(S) ==
    IF S = {} THEN <<>>
    ELSE ListFrom(CHOOSE a \in S : \A b \in S : OffsetKey(a) <= OffsetKey(b), S)

\* helper.py: _xy_convert
_xy_convert(x, y) == (x - 1) * 8 + (y - 1)

----------------------------------------------------------------------------
(* Piece: the movement pattern *)

RotNeg(o) == <<o[1] * (-1), o[2] * (-1)>>
RotLeft(o) == <<o[2] * (-1), o[1]>>
RotRight(o) == <<o[2], o[1] * (-1)>>

\* RotateReturn without `list(set(...))`
RotateReturnKeepsDuplicates(moves3) == moves3 \o Map(RotRight, moves3)

\* Piece._rotate.  `result = moves` aliases the argument, so each `+=` also
\* grows the argument, and the later maps run over the grown list: moves2 is the
\* list after the first `+=`, moves3 after the second.
RotateReturn(moves3) == ListOfSet(Elems(moves3 \o Map(RotRight, moves3)))

RotateSecond(moves2) == RotateReturn(moves2 \o Map(RotLeft, moves2))

_rotate(quarter) == RotateSecond(quarter \o Map(RotNeg, quarter))

pawn_move_modifier(player) == IF player = 0 THEN 1 ELSE -1

\* Piece.update_stats: the movement list of a piece of this name and player
RockMovement == _rotate([k \in 1..8 |-> <<0, k>>])
BishopMovement == _rotate([k \in 1..8 |-> <<k, k>>])
KnightMovement == _rotate(<< <<2, 1>>, <<1, 2>> >>)
KingMovement == _rotate(<< <<1, 1>>, <<1, 0>> >>)

PawnMovement(d) == << <<0, d>>, <<0, 2 * d>>, <<-1, d>>, <<1, d>> >>

Movement(name, player) ==
    CASE name = "pawn" -> PawnMovement(pawn_move_modifier(player))
      [] name = "bishop" -> BishopMovement
      [] name = "knight" -> KnightMovement
      [] name = "rock" -> RockMovement
      [] name = "queen" -> RockMovement \o BishopMovement
      [] name = "king" -> KingMovement

\* Piece.__init__ (and update_stats, which it calls)
NewPiece(name, pos, player) ==
    [name |-> name, player |-> player, x |-> pos[1], y |-> pos[2],
     movement |-> Movement(name, player)]

\* Piece.update_stats on an existing object
update_stats(p) == [p EXCEPT !.movement = Movement(p.name, p.player)]

\* Piece.set_pos
set_pos(p, x, y) == [p EXCEPT !.x = x, !.y = y]

----------------------------------------------------------------------------
(* Model: the grid *)

\* Model.get_point
get_point(m, x, y) == m.chess_map[_xy_convert(x, y)]

\* Model.set_point
set_point(m, thing, x, y) ==
    [m EXCEPT !.chess_map[_xy_convert(x, y)] = thing]

\* Model.is_inside
is_inside(x, y) == x \in 1..(9 - 1) /\ y \in 1..(9 - 1)

\* Model.get_pieces: the occupied slots in index order
get_pieces(m) ==
    SelectSeq([i \in 1..(8 * 8) |-> m.chess_map[i - 1]], LAMBDA u : u # None)

----------------------------------------------------------------------------
(* Piece.is_legal_move *)

Returns(b) == [exc |-> FALSE, ret |-> b]
ValueError == [exc |-> TRUE, ret |-> FALSE]

\* FinalFree without the test of the owner
FinalFreeAnyOwner(m, p, final) == Returns(TRUE)

\* `return final == None or final.player != self.player`
FinalFree(m, p, final) ==
    Returns(final = None \/ m.pieces[final].player # p.player)

\* PathAndFinal without the test of the squares in between
PathAndFinalJumps(m, p, x, y, intervening) == FinalFree(m, p, get_point(m, x, y))

\* the last lines of is_legal_move: nothing in between, and the final square
\* free or the enemy's
PathAndFinal(m, p, x, y, intervening) ==
    IF \E i \in 1..Len(intervening) :
            get_point(m, intervening[i][1], intervening[i][2]) # None
    THEN Returns(FALSE)
    ELSE FinalFree(m, p, get_point(m, x, y))

\* intervening.remove((self.x, self.y))
RemoveSelf(m, p, x, y, intervening) ==
    IF ~Has(intervening, <<p.x, p.y>>) THEN ValueError
    ELSE PathAndFinal(m, p, x, y, Remove(intervening, <<p.x, p.y>>))

\* intervening.remove((x, y)), then the second remove
RemoveEnds(m, p, x, y, intervening) ==
    IF ~Has(intervening, <<x, y>>) THEN ValueError
    ELSE RemoveSelf(m, p, x, y, Remove(intervening, <<x, y>>))

\* the list the rook's two nested ranges build: nx columns from x0, each of
\* ny squares from y0
Rectangle(x0, y0, nx, ny) ==
    [k \in 1..(nx * ny) |-> <<x0 + ((k - 1) \div ny), y0 + ((k - 1) % ny)>>]

RockBranch(m, p, x, y) ==
    IF x # p.x /\ y # p.y THEN Returns(FALSE)
    ELSE RemoveEnds(m, p, x, y,
            Rectangle(Min(x, p.x), Min(y, p.y),
                      Max(x, p.x) + 1 - Min(x, p.x), Max(y, p.y) + 1 - Min(y, p.y)))

\* the list the bishop's range builds: n squares from the piece's own
Diagonal(p, n, step_x, step_y) ==
    [k \in 1..n |-> <<p.x + (k - 1) * step_x, p.y + (k - 1) * step_y>>]

BishopBranch(m, p, x, y) ==
    IF Abs(x - p.x) # Abs(y - p.y) THEN Returns(FALSE)
    ELSE RemoveEnds(m, p, x, y,
            Diagonal(p, Abs(p.x - x) + 1, IF p.x < x THEN 1 ELSE -1,
                     IF p.y < y THEN 1 ELSE -1))

\* `return piece != None and piece.player != self.player`
EnemyAt(m, p, piece) ==
    Returns(piece # None /\ m.pieces[piece].player # p.player)

\* PawnMoves with the two squares forward from any rank
PawnMovesAnyRank(m, p, x, y, d) ==
    IF x = p.x /\ y = p.y + 1 * d
    THEN Returns(get_point(m, x, y) = None)
    ELSE IF x = p.x /\ y = p.y + 2 * d
    THEN Returns(get_point(m, x, p.y + 1 * d) = None /\ get_point(m, x, y) = None)
    ELSE IF Abs(x - p.x) = 1 /\ y = p.y + 1 * d
    THEN EnemyAt(m, p, get_point(m, x, y))
    ELSE Returns(FALSE)

\* the pawn's branch, d being self.pawn_move_modifier
PawnMoves(m, p, x, y, d) ==
    IF x = p.x /\ y = p.y + 1 * d
    THEN Returns(get_point(m, x, y) = None)
    ELSE IF x = p.x /\ (p.y = 2 \/ p.y = 7) /\ y = p.y + 2 * d
    THEN Returns(get_point(m, x, p.y + 1 * d) = None /\ get_point(m, x, y) = None)
    ELSE IF Abs(x - p.x) = 1 /\ y = p.y + 1 * d
    THEN EnemyAt(m, p, get_point(m, x, y))
    ELSE Returns(FALSE)

PawnBranch(m, p, x, y) == PawnMoves(m, p, x, y, pawn_move_modifier(p.player))

RECURSIVE is_legal_move(_, _, _, _)

\* `fake_rock.is_legal_move(x, y) or fake_bishop.is_legal_move(x, y)`, r being
\* what the fake rook's call gave
RockOrBishop(r, m, p, x, y) ==
    IF r.exc \/ r.ret THEN r
    ELSE is_legal_move(m, NewPiece("bishop", <<p.x, p.y>>, p.player), x, y)

\* Piece.is_legal_move of the piece object p (a record: a queen asks a fake
\* rook and a fake bishop that stand on no slot) for the square (x, y)
is_legal_move(m, p, x, y) ==
    CASE p.name = "king" ->
            IF Abs(x - p.x) > 1 \/ Abs(y - p.y) > 1 THEN Returns(FALSE)
            ELSE PathAndFinal(m, p, x, y, <<>>)
      [] p.name = "queen" ->
            RockOrBishop(
                is_legal_move(m, NewPiece("rock", <<p.x, p.y>>, p.player), x, y),
                m, p, x, y)
      [] p.name = "rock" -> RockBranch(m, p, x, y)
      [] p.name = "bishop" -> BishopBranch(m, p, x, y)
      [] p.name = "knight" ->
            IF ~((Abs(p.x - x) = 2 /\ Abs(p.y - y) = 1)
                 \/ (Abs(p.x - x) = 1 /\ Abs(p.y - y) = 2))
            THEN Returns(FALSE)
            ELSE PathAndFinal(m, p, x, y, <<>>)
      [] p.name = "pawn" -> PawnBranch(m, p, x, y)

\* a call that returned true
IsTrue(r) == ~r.exc /\ r.ret

\* is_legal_move as its callers inside the core use it: a truth value
Legal(m, u, x, y) == IsTrue(is_legal_move(m, m.pieces[u], x, y))

\* legal_moves: moveable_positions
Moveable(p) ==
    [k \in 1..Len(p.movement) |-> <<p.movement[k][1] + p.x, p.movement[k][2] + p.y>>]

\* Piece.legal_moves of the piece object u
legal_moves(m, u) ==
    SelectSeq(Moveable(m.pieces[u]),
              LAMBDA t : is_inside(t[1], t[2]) /\ Legal(m, u, t[1], t[2]))

----------------------------------------------------------------------------
(* Model: moving and taking back *)

\* MoveUnitOf without `unit.set_pos(to_x, to_y)`
MoveUnitOfKeepsPos(m, unit, from, to) ==
    set_point(
        set_point([m EXCEPT !.moves = Append(@, <<get_point(m, to[1], to[2]), from, to>>)],
                  unit, to[1], to[2]),
        None, from[1], from[2])

\* MoveUnitOf that records no captured unit in the history
MoveUnitOfRecordsNone(m, unit, from, to) ==
    [set_point(
        set_point([m EXCEPT !.moves = Append(@, <<None, from, to>>)],
                  unit, to[1], to[2]),
        None, from[1], from[2])
     EXCEPT !.pieces[unit] = set_pos(@, to[1], to[2])]

\* move_unit once unit = get_point(from) is read
MoveUnitOf(m, unit, from, to) ==
    [set_point(
        set_point([m EXCEPT !.moves = Append(@, <<get_point(m, to[1], to[2]), from, to>>)],
                  unit, to[1], to[2]),
        None, from[1], from[2])
     EXCEPT !.pieces[unit] = set_pos(@, to[1], to[2])]

\* Model.move_unit, for a from square that holds a unit
move_unit(m, from, to) == MoveUnitOf(m, get_point(m, from[1], from[2]), from, to)

\* `if unit != None: unit.set_pos(to_x, to_y)`
UndoUnitPos(m, unit, to) ==
    IF unit # None THEN [m EXCEPT !.pieces[unit] = set_pos(@, to[1], to[2])]
    ELSE m

\* `moved_unit.set_pos(from_x, from_y)`: of None it raises AttributeError
UndoMovedPos(m, moved_unit, from) ==
    IF moved_unit = None THEN [exc |-> "AttributeError", m |-> m]
    ELSE [exc |-> "",
          m |-> [m EXCEPT !.pieces[moved_unit] = set_pos(@, from[1], from[2])]]

\* UndoSet that leaves the square moved to empty and the captured unit off
\* the grid
UndoSetLosesCaptured(m, unit, from, to, moved_unit) ==
    UndoMovedPos(
        UndoUnitPos(set_point(set_point(m, None, to[1], to[2]),
                              moved_unit, from[1], from[2]), unit, to),
        moved_unit, from)

\* undo_move after the pop and `moved_unit = self.get_point(to)`
UndoSet(m, unit, from, to, moved_unit) ==
    UndoMovedPos(
        UndoUnitPos(set_point(set_point(m, unit, to[1], to[2]),
                              moved_unit, from[1], from[2]), unit, to),
        moved_unit, from)

\* undo_move after `self.moves.pop()` gave last
UndoLast(m, last) ==
    UndoSet(m, last[1], last[2], last[3], get_point(m, last[3][1], last[3][2]))

\* undo_move that returns silently on an empty history
undo_moveSilentOnEmpty(m) ==
    IF Len(m.moves) = 0 THEN [exc |-> "", m |-> m]
    ELSE UndoLast([m EXCEPT !.moves = SubSeq(@, 1, Len(@) - 1)], m.moves[Len(m.moves)])

\* undo_move that reads the last entry without popping it
undo_moveKeepsEntry(m) ==
    IF Len(m.moves) = 0 THEN [exc |-> "IndexError", m |-> m]
    ELSE UndoLast(m, m.moves[Len(m.moves)])

\* Model.undo_move.  moves.pop() of an empty list raises IndexError before
\* anything is written.
undo_move(m) ==
    IF Len(m.moves) = 0 THEN [exc |-> "IndexError", m |-> m]
    ELSE UndoLast([m EXCEPT !.moves = SubSeq(@, 1, Len(@) - 1)], m.moves[Len(m.moves)])

\* TransformFirst without the `return`: every pawn of the list that stands on
\* rank 1 or 8 becomes a queen
TransformEvery(m, pawns) ==
    [m EXCEPT !.pieces = [u \in DOMAIN m.pieces |->
        IF Has(pawns, u) /\ (m.pieces[u].y = 1 \/ m.pieces[u].y = 8)
        THEN update_stats([m.pieces[u] EXCEPT !.name = "queen"])
        ELSE m.pieces[u]]]

\* TransformFirst that promotes nothing
TransformNone(m, pawns) == m

\* pawn_transform: the first pawn of the list that stands on rank 1 or 8
\* becomes a queen, its stats are updated, and the function returns
TransformFirst(m, pawns) ==
    IF \A k \in 1..Len(pawns) : ~(m.pieces[pawns[k]].y = 1 \/ m.pieces[pawns[k]].y = 8)
    THEN m
    ELSE [m EXCEPT
            !.pieces[pawns[CHOOSE k \in 1..Len(pawns) :
                        /\ (m.pieces[pawns[k]].y = 1 \/ m.pieces[pawns[k]].y = 8)
                        /\ \A j \in 1..(k - 1) :
                            ~(m.pieces[pawns[j]].y = 1 \/ m.pieces[pawns[j]].y = 8)]] =
                update_stats([@ EXCEPT !.name = "queen"])]

\* Model.pawn_transform
pawn_transform(m) ==
    TransformFirst(m, SelectSeq(get_pieces(m), LAMBDA u : m.pieces[u].name = "pawn"))

----------------------------------------------------------------------------
(* Model: check and checkmate *)

\* `any(piece.is_legal_move(other_king.x, other_king.y) ...)`
AnyAttacks(m, checker_pieces, king) ==
    \E k \in 1..Len(checker_pieces) : Legal(m, checker_pieces[k], king.x, king.y)

\* InCheckOf with the pieces of the king's own side as the checking pieces
InCheckOfOwnSide(m, test_for, all) ==
    IF \A k \in 1..Len(all) :
            ~(m.pieces[all[k]].name = "king" /\ m.pieces[all[k]].player # test_for)
    THEN FALSE
    ELSE AnyAttacks(m,
            SelectSeq(all, LAMBDA u : m.pieces[u].player # test_for),
            m.pieces[SelectSeq(all, LAMBDA u : m.pieces[u].name = "king"
                                        /\ m.pieces[u].player # test_for)[1]])

\* is_in_check once pieces = self.get_pieces() is read
InCheckOf(m, test_for, all) ==
    IF \A k \in 1..Len(all) :
            ~(m.pieces[all[k]].name = "king" /\ m.pieces[all[k]].player # test_for)
    THEN FALSE
    ELSE AnyAttacks(m,
            SelectSeq(all, LAMBDA u : m.pieces[u].player = test_for),
            m.pieces[SelectSeq(all, LAMBDA u : m.pieces[u].name = "king"
                                        /\ m.pieces[u].player # test_for)[1]])

\* Model.is_in_check
is_in_check(m, test_for) == InCheckOf(m, test_for, get_pieces(m))

\* is_in_checkmate, the loop `for move in piece2.legal_moves()` from its k-th
\* move on: each trial is move_unit, is_in_check, undo_move.  The trace lists
\* the calls made: "move_unit", then "check" or "escape" for what is_in_check
\* said, then "undo_move"; "attack" opens the search a checking piece starts.
RECURSIVE MoveLoop(_, _, _, _, _, _)

\* MoveLoopBody that breaks at an escape before its undo_move
MoveLoopBodyBreaksBeforeUndo(m1, last_mover, piece2, mvs, k, trace) ==
    IF ~is_in_check(m1, last_mover)
    THEN [m |-> m1, broke |-> TRUE, trace |-> trace \o <<"move_unit", "escape">>]
    ELSE MoveLoop(undo_move(m1).m, last_mover, piece2, mvs, k + 1,
                  trace \o <<"move_unit", "check", "undo_move">>)

\* the body of that loop after its move_unit, which left the model m1
MoveLoopBody(m1, last_mover, piece2, mvs, k, trace) ==
    IF ~is_in_check(m1, last_mover)
    THEN [m |-> undo_move(m1).m, broke |-> TRUE,
          trace |-> trace \o <<"move_unit", "escape", "undo_move">>]
    ELSE MoveLoop(undo_move(m1).m, last_mover, piece2, mvs, k + 1,
                  trace \o <<"move_unit", "check", "undo_move">>)

MoveLoop(m, last_mover, piece2, mvs, k, trace) ==
    IF k > Len(mvs) THEN [m |-> m, broke |-> FALSE, trace |-> trace]
    ELSE MoveLoopBody(move_unit(m, <<m.pieces[piece2].x, m.pieces[piece2].y>>, mvs[k]),
                      last_mover, piece2, mvs, k, trace)

\* the loop `for piece2 in other_pieces` from its j-th piece on
RECURSIVE Piece2Loop(_, _, _, _, _)

\* Piece2LoopBody without the outer `break`: the next piece is tried after an
\* escape
Piece2LoopBodyGoesOn(r, last_mover, other_pieces, j) ==
    Piece2Loop(r.m, last_mover, other_pieces, j + 1, r.trace)

\* `else: continue` / `break`, r being what the inner loop left
Piece2LoopBody(r, last_mover, other_pieces, j) ==
    IF r.broke THEN r
    ELSE Piece2Loop(r.m, last_mover, other_pieces, j + 1, r.trace)

Piece2Loop(m, last_mover, other_pieces, j, trace) ==
    IF j > Len(other_pieces) THEN [m |-> m, broke |-> FALSE, trace |-> trace]
    ELSE Piece2LoopBody(MoveLoop(m, last_mover, other_pieces[j],
                                 legal_moves(m, other_pieces[j]), 1, trace),
                        last_mover, other_pieces, j)

\* the loop `for piece in checker_pieces` from its i-th piece on
RECURSIVE CheckerLoop(_, _, _, _, _, _, _, _)

\* CheckerLoopBody that never sets the flag back to false at an escape
CheckerLoopBodyKeepsFlag(r, last_mover, checker_pieces, other_pieces, other_king, i) ==
    CheckerLoop(r.m, last_mover, checker_pieces, other_pieces, other_king,
                i + 1, TRUE, r.trace)

\* a checking piece's search is over, r being what it left: the flag is
\* false if it broke off at an escape and true if it ran to the end
CheckerLoopBody(r, last_mover, checker_pieces, other_pieces, other_king, i) ==
    CheckerLoop(r.m, last_mover, checker_pieces, other_pieces, other_king,
                i + 1, ~r.broke, r.trace)

CheckerLoop(m, last_mover, checker_pieces, other_pieces, other_king, i, flag, trace) ==
    IF i > Len(checker_pieces)
    THEN [exc |-> "", ret |-> flag, m |-> m, trace |-> trace]
    ELSE IF Legal(m, checker_pieces[i], m.pieces[other_king].x,
                  m.pieces[other_king].y)
    THEN CheckerLoopBody(Piece2Loop(m, last_mover, other_pieces, 1,
                                    Append(trace, "attack")),
                         last_mover, checker_pieces, other_pieces, other_king, i)
    ELSE CheckerLoop(m, last_mover, checker_pieces, other_pieces, other_king,
                     i + 1, flag, trace)

\* is_in_checkmate once last_mover and pieces = self.get_pieces() are read
CheckmateOf(m, last_mover, all) ==
    IF \A k \in 1..Len(all) :
            ~(m.pieces[all[k]].name = "king" /\ m.pieces[all[k]].player # last_mover)
    THEN [exc |-> "", ret |-> FALSE, m |-> m, trace |-> <<>>]
    ELSE CheckerLoop(m, last_mover,
            SelectSeq(all, LAMBDA u : m.pieces[u].player = last_mover),
            SelectSeq(all, LAMBDA u : m.pieces[u].player # last_mover),
            SelectSeq(all, LAMBDA u : m.pieces[u].name = "king"
                                      /\ m.pieces[u].player # last_mover)[1],
            1, FALSE, <<>>)

\* `last_mover = self.get_point(*to_pos).player`: of None it raises
LastMoverOf(m, mover) ==
    IF mover = None
    THEN [exc |-> "AttributeError", ret |-> FALSE, m |-> m, trace |-> <<>>]
    ELSE CheckmateOf(m, m.pieces[mover].player, get_pieces(m))

\* Model.is_in_checkmate: what it returns, the model it leaves, and the calls
\* it made
is_in_checkmate(m) ==
    IF Len(m.moves) = 0
    THEN [exc |-> "", ret |-> FALSE, m |-> m, trace |-> <<>>]
    ELSE LastMoverOf(m, get_point(m, m.moves[Len(m.moves)][3][1],
                                  m.moves[Len(m.moves)][3][2]))

\* the number of kings on the grid, as game_not_over sums it
KingCount(m) ==
    Cardinality({i \in 0..(8 * 8 - 1) :
        m.chess_map[i] # None /\ m.pieces[m.chess_map[i]].name = "king"})

\* `... and not self.is_in_checkmate()`
NotCheckmate(r) == [ret |-> ~r.ret, m |-> r.m]

\* game_not_over without `and not self.is_in_checkmate()`
game_not_overCountsKingsOnly(m) == [ret |-> KingCount(m) = 2, m |-> m]

\* Model.game_not_over; `and` runs is_in_checkmate only with two kings
game_not_over(m) ==
    IF KingCount(m) # 2 THEN [ret |-> FALSE, m |-> m]
    ELSE NotCheckmate(is_in_checkmate(m))

----------------------------------------------------------------------------
(* Model.__init__ and the setup functions *)

\* Model.__init__ before the setup: chess_map = [None] * 64, no Piece yet
EmptyModel ==
    [chess_map |-> [i \in 0..(8 * 8 - 1) |-> None], pieces |-> <<>>, moves |-> <<>>]

\* a new Piece object on the slot of its own x and y
PlacePiece(m, p) ==
    set_point([m EXCEPT !.pieces = Append(@, p)], Len(m.pieces) + 1, p.x, p.y)

\* set_point(Piece(name, (x, y), player, self), x = x, y = y)
Place(m, name, x, y, player) == PlacePiece(m, NewPiece(name, <<x, y>>, player))

\* a setup function's run of set_point calls: placements <<name, x, y, player>>
RECURSIVE PlaceAll(_, _, _)
PlaceAll(m, placements, k) ==
    IF k > Len(placements) THEN m
    ELSE PlaceAll(Place(m, placements[k][1], placements[k][2], placements[k][3],
                        placements[k][4]), placements, k + 1)

\* Model._mirror
_mirror(x, y) == <<x, 9 - y>>

\* mirror_piece.set_pos(new_x, new_y)
SetPosTo(p, pos) == set_pos(p, pos[1], pos[2])

\* _mirror_map's copy of a piece: the other owner, the stats updated, the
\* mirrored square
MirrorPiece(piece) ==
    SetPosTo(update_stats([piece EXCEPT !.player = IF @ = 0 THEN 1 ELSE 0]),
             _mirror(piece.x, piece.y))

\* Model._mirror_map, from the k-th piece of get_pieces() on
RECURSIVE MirrorLoop(_, _, _)
MirrorLoop(m, all, k) ==
    IF k > Len(all) THEN m
    ELSE MirrorLoop(PlacePiece(m, MirrorPiece(m.pieces[all[k]])), all, k + 1)

_mirror_map(m) == MirrorLoop(m, get_pieces(m), 1)

\* Model.setup_standard_map
setup_standard_map ==
    _mirror_map(PlaceAll(EmptyModel,
        << <<"rock", 1, 1, 0>>, <<"rock", 8, 1, 0>>,
           <<"bishop", 3, 1, 0>>, <<"bishop", 6, 1, 0>>,
           <<"knight", 2, 1, 0>>, <<"knight", 7, 1, 0>>,
           <<"queen", 4, 1, 0>>, <<"king", 5, 1, 0>> >>
        \o [x \in 1..8 |-> <<"pawn", x, 2, 0>>], 1))

----------------------------------------------------------------------------
(* The program's state as one record, and the game() loop *)

Cur == [chess_map |-> chess_map, pieces |-> pieces, moves |-> moves]

Becomes(m) ==
    /\ chess_map' = m.chess_map
    /\ pieces' = m.pieces
    /\ moves' = m.moves

\* what the last call made on the model was and gave: its name, the piece and
\* the square or the player it was made with, whether it raised, what it
\* returned (a truth value, or the list of squares of legal_moves), and the
\* calls is_in_checkmate made inside
Called(op, unit, to, player, exc, ret, squares, trace) ==
    [op |-> op, unit |-> unit, to |-> to, player |-> player, exc |-> exc,
     ret |-> ret, squares |-> squares, trace |-> trace]

NoCall == Called("none", None, <<0, 0>>, 0, FALSE, FALSE, <<>>, <<>>)

\* the longest game played from the standard map, in plies
MaxPly == 5

\* the units the players of the standard game choose among, by the square
\* they start on: player 0's e-pawn and queen, player 1's f-pawn and g-pawn
Repertoire == {<<5, 2>>, <<4, 1>>, <<6, 7>>, <<7, 7>>}

StandardMovers == {get_point(setup_standard_map, s[1], s[2]) : s \in Repertoire}

\* all_moves without `if unit.player == my_player`
all_movesOfAnyPlayer(m, my_player, movers) ==
    {<<<<m.pieces[u].x, m.pieces[u].y>>, t>> :
        <<u, t>> \in {<<w, e>> \in
            UNION {{w} \X Elems(legal_moves(m, w)) :
                   w \in Elems(get_pieces(m)) \cap movers} : TRUE}}

\* random_ai / RandomAI.random_move: all_moves, the pairs (from, to) of every
\* unit u of the player with every square of u.legal_moves().  The model's
\* players choose among the units in movers.
all_moves(m, my_player, movers) ==
    {<<<<m.pieces[u].x, m.pieces[u].y>>, t>> :
        <<u, t>> \in {<<w, e>> \in
            UNION {{w} \X Elems(legal_moves(m, w)) :
                   w \in {v \in Elems(get_pieces(m)) \cap movers :
                             m.pieces[v].player = my_player}} : TRUE}}

\* what a player function gives back: a pair (from, to), or an exception
Chosen(from, to) == [exc |-> "", from |-> from, to |-> to]
Fails(exc) == [exc |-> exc, from |-> <<0, 0>>, to |-> <<0, 0>>]

\* the outcomes of random_ai / RandomAI.random_move once my_pieces is known:
\* reduce() of no list at all raises TypeError, random.choice of an empty list
\* raises IndexError, and else any pair of all_moves may be chosen
RandomChoice(m, my_player, my_pieces) ==
    IF Len(my_pieces) = 0 THEN {Fails("TypeError")}
    ELSE IF all_moves(m, my_player, Elems(my_pieces)) = {} THEN {Fails("IndexError")}
    ELSE {Chosen(mv[1], mv[2]) : mv \in all_moves(m, my_player, Elems(my_pieces))}

\* random_ai of chess.py
random_ai(m, my_player) ==
    RandomChoice(m, my_player,
                 SelectSeq(get_pieces(m), LAMBDA u : m.pieces[u].player = my_player))

\* RandomAI.random_move of ai.py, self.model being m
random_move(m, my_player) ==
    RandomChoice(m, my_player,
                 SelectSeq(get_pieces(m), LAMBDA u : m.pieces[u].player = my_player))

\* `for piece in my_pieces: if piece.is_legal_move(enemy_king.x, enemy_king.y):
\* return ...` from the k-th piece on, and the random move after the loop
RECURSIVE WinningLoop(_, _, _, _, _)

\* what the loop does with the answer r of the k-th piece's is_legal_move
WinningLoopBody(r, m, my_player, my_pieces, enemy_king, k) ==
    IF r.exc THEN {Fails("ValueError")}
    ELSE IF r.ret
    THEN {Chosen(<<m.pieces[my_pieces[k]].x, m.pieces[my_pieces[k]].y>>,
                 <<m.pieces[enemy_king].x, m.pieces[enemy_king].y>>)}
    ELSE WinningLoop(m, my_player, my_pieces, enemy_king, k + 1)

WinningLoop(m, my_player, my_pieces, enemy_king, k) ==
    IF k > Len(my_pieces) THEN RandomChoice(m, my_player, my_pieces)
    ELSE WinningLoopBody(is_legal_move(m, m.pieces[my_pieces[k]],
                                       m.pieces[enemy_king].x, m.pieces[enemy_king].y),
                         m, my_player, my_pieces, enemy_king, k)

\* WinningOf that never looks for the winning move
WinningOfRandomOnly(m, my_player, enemy_kings) ==
    IF Len(enemy_kings) = 0 THEN {Fails("IndexError")}
    ELSE random_ai(m, my_player)

\* the smart player once the list of enemy kings is built: `[...][0]` of an
\* empty list raises IndexError
WinningOf(m, my_player, enemy_kings) ==
    IF Len(enemy_kings) = 0 THEN {Fails("IndexError")}
    ELSE WinningLoop(m, my_player,
                     SelectSeq(get_pieces(m), LAMBDA u : m.pieces[u].player = my_player),
                     enemy_kings[1], 1)

\* smart_ai of chess.py: the pairs it may return
smart_ai(m, my_player) ==
    WinningOf(m, my_player,
              SelectSeq(get_pieces(m), LAMBDA u : m.pieces[u].name = "king"
                                                  /\ m.pieces[u].player # my_player))

\* SmartAI.move of ai.py, self.model being m
SmartAI_move(m, my_player) ==
    WinningOf(m, my_player,
              SelectSeq(get_pieces(m), LAMBDA u : m.pieces[u].name = "king"
                                                  /\ m.pieces[u].player # my_player))

\* what the loop of game() does with the player's move: move_unit,
\* pawn_transform, is_in_checkmate, else is_in_check, and the turn changes hands
ApplyMove(c) ==
    /\ Becomes(c.m)
    /\ msg' = IF c.ret THEN "You have been checkmated!"
              ELSE IF is_in_check(c.m, turn) THEN "You are in check!"
              ELSE "None"
    /\ call' = Called("is_in_checkmate", None, <<0, 0>>, turn, c.exc # "", c.ret, <<>>, c.trace)
    /\ turn' = IF turn = 1 THEN 0 ELSE 1
    /\ UNCHANGED <<pc, reply>>

\* one iteration of the loop of game(), in a game of at most plies plies: the
\* player, random_ai or a human, returns a legal move of one of his units
GameTurn(movers, plies) ==
    /\ pc = "loop"
    /\ Len(moves) < plies
    /\ \E g \in {game_not_over(Cur)} :
        /\ g.ret
        /\ \E mv \in all_moves(g.m, turn, movers) :
              ApplyMove(is_in_checkmate(pawn_transform(move_unit(g.m, mv[1], mv[2]))))

\* the loop ends: game_not_over() is false, print_loss_screen
GameOver ==
    /\ pc = "loop"
    /\ \E g \in {game_not_over(Cur)} :
        /\ ~g.ret
        /\ Becomes(g.m)
    /\ pc' = "done"
    /\ call' = Called("game_not_over", None, <<0, 0>>, turn, FALSE, FALSE, <<>>, <<>>)
    /\ UNCHANGED <<turn, msg, reply>>

\* a human player (human()) names a unit of his own and a square for which
\* is_legal_move raises; nothing catches it and the program ends
Raised(u, to, r) ==
    /\ r.exc
    /\ reply' = Called("is_legal_move", u, to, pieces[u].player, r.exc, r.ret, <<>>, <<>>)

HumanRaises(movers) ==
    /\ pc = "loop"
    /\ \E g \in {game_not_over(Cur)} :
        /\ g.ret
        /\ \E u \in {v \in Elems(get_pieces(g.m)) \cap movers : g.m.pieces[v].player = turn} :
            \E to \in Squares :
                Raised(u, to, is_legal_move(g.m, g.m.pieces[u], to[1], to[2]))
        /\ Becomes(g.m)
    /\ pc' = "crashed"
    /\ UNCHANGED <<turn, msg, call>>

\* a caller asks a piece on the board piece.is_legal_move(x, y) for a square
\* inside the board; the model stays as it is
AskedLegal(u, to, r) ==
    reply' = Called("is_legal_move", u, to, pieces[u].player, r.exc, r.ret, <<>>, <<>>)

CallIsLegalMove ==
    /\ pc = "loop"
    /\ \E u \in Elems(get_pieces(Cur)), to \in Squares :
            AskedLegal(u, to, is_legal_move(Cur, pieces[u], to[1], to[2]))
    /\ pc' = "asked"
    /\ UNCHANGED <<chess_map, pieces, moves, turn, msg, call>>

\* a caller asks a piece on the board piece.legal_moves()
CallLegalMoves ==
    /\ pc = "loop"
    /\ \E u \in Elems(get_pieces(Cur)) :
            reply' = Called("legal_moves", u, <<0, 0>>, pieces[u].player, FALSE, FALSE,
                           legal_moves(Cur, u), <<>>)
    /\ pc' = "asked"
    /\ UNCHANGED <<chess_map, pieces, moves, turn, msg, call>>

\* a caller asks model.is_in_check(player)
CallIsInCheck ==
    /\ pc = "loop"
    /\ \E player \in {0, 1} :
            reply' = Called("is_in_check", None, <<0, 0>>, player, FALSE,
                           is_in_check(Cur, player), <<>>, <<>>)
    /\ pc' = "asked"
    /\ UNCHANGED <<chess_map, pieces, moves, turn, msg, call>>

\* a caller asks smart_ai(player) or SmartAI(player, model).move() for a move
AskedAI(op, player, r) ==
    reply' = Called(op, None, <<0, 0>>, player, r.exc # "", FALSE, <<r.from, r.to>>, <<>>)

CallSmartAI ==
    /\ pc = "loop"
    /\ \E player \in {0, 1} :
        \/ \E r \in smart_ai(Cur, player) : AskedAI("smart_ai", player, r)
        \/ \E r \in SmartAI_move(Cur, player) : AskedAI("SmartAI.move", player, r)
    /\ pc' = "asked"
    /\ UNCHANGED <<chess_map, pieces, moves, turn, msg, call>>

\* a caller calls model.pawn_transform() on the map as it stands, and the
\* model is not used after that
CallPawnTransform ==
    /\ pc = "loop"
    /\ Becomes(pawn_transform(Cur))
    /\ call' = Called("pawn_transform", None, <<0, 0>>, turn, FALSE, FALSE, <<>>, <<>>)
    /\ pc' = "stopped"
    /\ UNCHANGED <<turn, msg, reply>>

----------------------------------------------------------------------------
\* the caller has its answer and the program goes on
Return ==
    /\ pc = "asked"
    /\ pc' = "loop"
    /\ reply' = NoCall
    /\ UNCHANGED <<chess_map, pieces, moves, turn, msg, call>>

----------------------------------------------------------------------------
(* The standard game: Model(), then game() *)

Init ==
    /\ chess_map = setup_standard_map.chess_map
    /\ pieces = setup_standard_map.pieces
    /\ moves = setup_standard_map.moves
    /\ turn = 0
    /\ pc = "loop"
    /\ msg = "None"
    /\ call = NoCall
    /\ reply = NoCall

Next ==
    \/ GameTurn(StandardMovers, MaxPly)
    \/ GameOver
    \/ HumanRaises(StandardMovers)

Spec == Init /\ [][Next]_vars

----------------------------------------------------------------------------
(* The standard game played long enough for a pawn to cross the board *)

\* the longest such game, in plies
MaxLongPly == 9

\* the units the players of the long game choose among, by the square they
\* start on: player 0's e-pawn, player 1's a-pawn and h-pawn
LongRepertoire == {<<5, 2>>, <<1, 7>>, <<8, 7>>}

LongMovers == {get_point(setup_standard_map, s[1], s[2]) : s \in LongRepertoire}

NextLong ==
    \/ GameTurn(LongMovers, MaxLongPly)
    \/ GameOver

SpecLong == Init /\ [][NextLong]_vars

----------------------------------------------------------------------------
(* The core on other maps, set up the way setup_queen_map sets its map up *)

\* the pieces of a probe map stand on the files 1..ProbeFiles
ProbeFiles == 2

\* the longest game played from one of these maps, in plies
MaxMapPly == 1

ProbeSquares == (1..ProbeFiles) \X Coords

\* one piece of any name and owner on a probe square, alone or with one pawn
\* of either player on another probe square
ProbeMaps ==
    {PlaceAll(EmptyModel, << <<n, s[1], s[2], pl>> >>, 1) :
        n \in Names, s \in ProbeSquares, pl \in {0, 1}}
    \cup {PlaceAll(EmptyModel, << <<n, so[1][1], so[1][2], pl>>,
                                  <<"pawn", so[2][1], so[2][2], ol>> >>, 1) :
            n \in Names, pl \in {0, 1}, ol \in {0, 1},
            so \in {q \in ProbeSquares \X ProbeSquares : q[1] # q[2]}}

\* maps with both kings.  A rook on a1 that can give check on the back rank
\* to a king on g8 behind its pawns (with and without the pawn on h7, and with
\* a bishop on d5 that can take on a8); a bishop on e2 that uncovers the rook
\* on e1 (both check the king on e8 once it stands on h5); a pawn on a7
\* that can reach rank 8.
BackRank == << <<"king", 7, 1, 0>>, <<"rock", 1, 1, 0>>, <<"king", 7, 8, 1>>,
               <<"pawn", 6, 7, 1>>, <<"pawn", 7, 7, 1>> >>

ScenarioMaps ==
    {PlaceAll(EmptyModel, BackRank \o extra, 1) :
        extra \in {<< <<"pawn", 8, 7, 1>> >>,
                   <<>>,
                   << <<"pawn", 8, 7, 1>>, <<"bishop", 4, 5, 1>> >>}}
    \cup {PlaceAll(EmptyModel, << <<"king", 1, 1, 0>>, <<"rock", 5, 1, 0>>,
                                  <<"bishop", 5, 2, 0>>, <<"king", 5, 8, 1>>,
                                  <<"pawn", 1, 7, 0>>, <<"pawn", 8, 5, 1>> >>, 1)}

InitMaps ==
    /\ \E m \in ProbeMaps \cup ScenarioMaps :
        /\ chess_map = m.chess_map
        /\ pieces = m.pieces
        /\ moves = m.moves
    /\ turn = 0
    /\ pc = "loop"
    /\ msg = "None"
    /\ call = NoCall
    /\ reply = NoCall

NextMaps ==
    \/ GameTurn(Elems(get_pieces(Cur)), MaxMapPly)
    \/ GameOver
    \/ HumanRaises(Elems(get_pieces(Cur)))
    \/ CallIsLegalMove
    \/ CallLegalMoves
    \/ CallIsInCheck
    \/ CallSmartAI
    \/ CallPawnTransform
    \/ Return

SpecMaps == InitMaps /\ [][NextMaps]_vars

----------------------------------------------------------------------------
(* The Model's operations called one after another on the standard map, in any
   order, the way is_in_checkmate and game() call them *)

\* the longest history the calls build up
MaxOps == 5

\* the units the calls move, by the square they start on: player 0's e-pawn
\* and player 1's d-pawn, each for as long as it is a pawn
OpsRepertoire == {<<5, 2>>, <<4, 7>>}

OpsMovers == {get_point(setup_standard_map, s[1], s[2]) : s \in OpsRepertoire}

\* model.move_unit(from, to) for a unit on the grid and a square of its
\* legal_moves()
OpMoveUnit ==
    /\ pc = "ops"
    /\ Len(moves) < MaxOps
    /\ \E u \in {v \in Elems(get_pieces(Cur)) \cap OpsMovers : pieces[v].name = "pawn"} :
        \E to \in Elems(legal_moves(Cur, u)) :
            /\ Becomes(move_unit(Cur, <<pieces[u].x, pieces[u].y>>, to))
            /\ call' = Called("move_unit", u, to, pieces[u].player, FALSE, FALSE, <<>>, <<>>)
    /\ UNCHANGED <<turn, pc, msg, reply>>

\* model.undo_move(); the IndexError of an empty history ends the program
OpUndoMove ==
    /\ pc = "ops"
    /\ \E r \in {undo_move(Cur)} :
        /\ Becomes(r.m)
        /\ call' = Called("undo_move", None, <<0, 0>>, 0, r.exc # "", FALSE, <<>>, <<>>)
        /\ pc' = IF r.exc # "" THEN "crashed" ELSE pc
    /\ UNCHANGED <<turn, msg, reply>>

\* model.pawn_transform()
OpPawnTransform ==
    /\ pc = "ops"
    /\ Becomes(pawn_transform(Cur))
    /\ call' = Called("pawn_transform", None, <<0, 0>>, 0, FALSE, FALSE, <<>>, <<>>)
    /\ UNCHANGED <<turn, pc, msg, reply>>

\* model.is_in_checkmate()
OpIsInCheckmate ==
    /\ pc = "ops"
    /\ \E r \in {is_in_checkmate(Cur)} :
        /\ Becomes(r.m)
        /\ call' = Called("is_in_checkmate", None, <<0, 0>>, 0, r.exc # "", r.ret, <<>>, r.trace)
        /\ pc' = IF r.exc # "" THEN "crashed" ELSE pc
    /\ UNCHANGED <<turn, msg, reply>>

InitOps ==
    /\ chess_map = setup_standard_map.chess_map
    /\ pieces = setup_standard_map.pieces
    /\ moves = setup_standard_map.moves
    /\ turn = 0
    /\ pc = "ops"
    /\ msg = "None"
    /\ call = NoCall
    /\ reply = NoCall

NextOps ==
    \/ OpMoveUnit
    \/ OpUndoMove
    \/ OpPawnTransform
    \/ OpIsInCheckmate

SpecOps == InitOps /\ [][NextOps]_vars

----------------------------------------------------------------------------
(* The notation of moves.  A text is the sequence of its characters. *)

x_names == <<"a", "b", "c", "d", "e", "f", "g", "h">>

y_names == <<"1", "2", "3", "4", "5", "6", "7", "8">>

Digits == <<"0", "1", "2", "3", "4", "5", "6", "7", "8", "9">>

\* str(n) of a natural number
RECURSIVE str(_)
str(n) == IF n < 10 THEN <<Digits[n + 1]>> ELSE str(n \div 10) \o <<Digits[(n % 10) + 1]>>

\* int(c) of a character of y_names
int(c) == IndexOf(Digits, c) - 1

\* coordinates_to_human_notation of a history entry (unit, from, to)
coordinates_to_human_notation(entry) ==
    <<x_names[entry[2][1]]>> \o str(entry[2][2])
        \o <<IF entry[1] = None THEN "-" ELSE "x">>
        \o <<x_names[entry[3][1]]>> \o str(entry[3][2])

\* what human_notation_to_coordinates returns: False, or a pair of squares
NotParsed == [ok |-> FALSE, from |-> <<0, 0>>, to |-> <<0, 0>>]
Parsed(from, to) == [ok |-> TRUE, from |-> from, to |-> to]

\* human_notation_to_coordinates after move.split("-") gave the two texts
ParseSplit(from_pos, to_pos) ==
    IF Len(from_pos) # Len(to_pos) THEN NotParsed
    ELSE IF ~Has(x_names, from_pos[1]) \/ ~Has(x_names, to_pos[1])
            \/ ~Has(y_names, from_pos[2]) \/ ~Has(y_names, to_pos[2])
    THEN NotParsed
    ELSE Parsed(<<IndexOf(x_names, from_pos[1]), int(from_pos[2])>>,
                <<IndexOf(x_names, to_pos[1]), int(to_pos[2])>>)

\* human_notation_to_coordinates of a text
human_notation_to_coordinates(move) ==
    IF Len(move) # 5 \/ Len(SelectSeq(move, LAMBDA c : c = "-")) # 1 THEN NotParsed
    ELSE ParseSplit(SubSeq(move, 1, IndexOf(move, "-") - 1),
                    SubSeq(move, IndexOf(move, "-") + 1, Len(move)))

----------------------------------------------------------------------------
(* Properties of move_unit and undo_move *)

\* the owner of a piece id
Owner(u) == pieces[u].player

\* the square a piece id stands on
Square(u) == <<pieces[u].x, pieces[u].y>>

\* move_unit(from, to) of the piece u, followed immediately by undo_move()
RoundTrip(m, u, to) == undo_move(move_unit(m, <<m.pieces[u].x, m.pieces[u].y>>, to))

\* C1: in every position of the game from the standard opening, for every
\* piece on the board and every destination of its legal_moves(), move_unit
\* followed immediately by undo_move raises nothing and leaves the grid, every
\* piece's stored position and the history exactly as they were.
C1_RoundTrip ==
    \A u \in Elems(get_pieces(Cur)) :
        \A to \in Elems(legal_moves(Cur, u)) :
            RoundTrip(Cur, u, to) = [exc |-> "", m |-> Cur]

\* a position reached by moves in which a piece has a capture among its legal
\* moves, and the round trip of that capture restores the position
C1_Witness ==
    /\ Len(moves) > 0
    /\ \E u \in Elems(get_pieces(Cur)) :
        \E to \in Elems(legal_moves(Cur, u)) :
            /\ get_point(Cur, to[1], to[2]) # None
            /\ RoundTrip(Cur, u, to).m = Cur

----------------------------------------------------------------------------
(* Properties of is_in_checkmate *)

\* the calls of a search without the marks that open it
Trials(trace) == SelectSeq(trace, LAMBDA e : e # "attack")

\* every move_unit is followed by one is_in_check and one undo_move before the
\* next move_unit or the end
Paired(t) ==
    /\ Len(t) % 3 = 0
    /\ \A i \in 1..Len(t) :
        /\ (i % 3 = 1) => t[i] = "move_unit"
        /\ (i % 3 = 2) => t[i] \in {"check", "escape"}
        /\ (i % 3 = 0) => t[i] = "undo_move"

\* the call r of is_in_checkmate on the model m raised nothing, left m as it
\* was, and undid each of its trial moves
SideEffectFree(r, m) ==
    /\ r.exc = ""
    /\ r.m = m
    /\ Paired(Trials(r.trace))

\* the model as the step leaves it
CurNext == [chess_map |-> chess_map', pieces |-> pieces', moves |-> moves']

\* the step is a turn of game(): move_unit, pawn_transform, is_in_checkmate
TurnTaken == pc = "loop" /\ pc' = "loop" /\ turn' # turn

\* the turn's is_in_checkmate() left the model as move_unit and pawn_transform
\* had made it, the move being the last of the history
LeftAsMoved ==
    /\ Len(moves') = Len(moves) + 1
    /\ CurNext = pawn_transform(move_unit(Cur, moves'[Len(moves')][2], moves'[Len(moves')][3]))
    /\ ~call'.exc
    /\ Paired(Trials(call'.trace))

\* C2: in every position of the game from the standard opening,
\* is_in_checkmate() returns with the grid, every piece's position, kind and
\* owner, and the history as they were before the call, and each trial
\* move_unit of its search is followed by exactly one undo_move before the next
\* trial or the return, whether the trial escaped the check or not.  This
\* holds of the call game() makes in each turn and of a call in any position.
C2_CheckmateSideEffectFree ==
    /\ [][TurnTaken => LeftAsMoved]_vars
    /\ []SideEffectFree(is_in_checkmate(Cur), Cur)

\* the is_in_checkmate() of the last turn searched: some trial left the king
\* in check and some trial escaped, and the position is as the move left it
C2_Witness ==
    /\ call.op = "is_in_checkmate"
    /\ Has(call.trace, "check")
    /\ Has(call.trace, "escape")
    /\ Len(call.trace) > 6
    /\ SideEffectFree(is_in_checkmate(Cur), Cur)

\* the piece that made the last move of the history
LastUnit(m) == get_point(m, m.moves[Len(m.moves)][3][1], m.moves[Len(m.moves)][3][2])

\* the squares of m that hold a piece of the given player
SquaresOf(m, player) ==
    {s \in Squares : get_point(m, s[1], s[2]) # None
                     /\ m.pieces[get_point(m, s[1], s[2])].player = player}

\* the squares of m that hold a king of the given player
KingSquares(m, player) ==
    {s \in SquaresOf(m, player) : m.pieces[get_point(m, s[1], s[2])].name = "king"}

\* (a) of the claim: a piece of last_mover has a legal move onto the square of
\* a king of the other side
Attacked(m, last_mover) ==
    \E ks \in KingSquares(m, 1 - last_mover) :
        \E s \in SquaresOf(m, last_mover) :
            IsTrue(is_legal_move(m, m.pieces[get_point(m, s[1], s[2])], ks[1], ks[2]))

\* (b) of the claim: after every legal move of every piece of the other side,
\* is_in_check(last_mover) still holds
NoEscape(m, last_mover) ==
    \A s \in SquaresOf(m, 1 - last_mover) :
        \A to \in Elems(legal_moves(m, get_point(m, s[1], s[2]))) :
            is_in_check(move_unit(m, s, to), last_mover)

\* what the claim says is_in_checkmate returns, last_mover being known
MateOf(m, last_mover) ==
    /\ KingSquares(m, 1 - last_mover) # {}
    /\ Attacked(m, last_mover)
    /\ NoEscape(m, last_mover)

\* what the claim says is_in_checkmate returns
MateRule(m) ==
    /\ Len(m.moves) > 0
    /\ MateOf(m, m.pieces[LastUnit(m)].player)

\* C3: is_in_checkmate() returns false on an empty history and false when the
\* king of the side that did not move last is absent; otherwise it returns
\* true exactly if a piece of the last mover has a legal move onto that king's
\* square and every legal move of every piece of the side in check leaves
\* is_in_check(last_mover) true.  It holds of the call game() makes after each
\* move and of a call in any position of the loop.
C3_CheckmateRule ==
    (pc # "asked") =>
        /\ is_in_checkmate(Cur).ret = MateRule(Cur)
        /\ (call.op = "is_in_checkmate") => (call.ret = MateRule(Cur))

\* the rook has gone to the back rank, the king behind its three pawns has no
\* answer, and the is_in_checkmate() of that turn returned true
C3_Witness ==
    /\ call.op = "is_in_checkmate"
    /\ call.ret
    /\ Len(moves) = 1
    /\ MateRule(Cur)
    /\ get_point(Cur, 8, 7) # None

\* C4 (as claimed): in every state of the game loop from the standard opening
\* both kings are on the board.
C4_BothKings == KingCount(Cur) = 2

----------------------------------------------------------------------------
(* Properties of is_legal_move, read off the answers the calls gave *)

\* the call asked the piece reply.unit, which stands on the board, for the
\* square reply.to
AskedMove == reply.op = "is_legal_move"

\* the offset of the asked square from the asked piece's own
AskedOffset == <<reply.to[1] - pieces[reply.unit].x, reply.to[2] - pieces[reply.unit].y>>

\* what stands on the asked square
AskedFinal == get_point(Cur, reply.to[1], reply.to[2])

\* the asked square is empty or holds a piece of the other player
FinalOpen == AskedFinal = None \/ Owner(AskedFinal) # Owner(reply.unit)

\* the answer was the truth value b, returned and not raised
Answered(b) == ~reply.exc /\ reply.ret = b

\* C5 (as claimed): for every piece and every square inside the board whose
\* offset from the piece is not in the piece's movement list, the piece's own
\* square included, is_legal_move returns false and raises nothing.
C5_OffPatternReturnsFalse ==
    (AskedMove /\ ~Has(pieces[reply.unit].movement, AskedOffset)) => Answered(FALSE)

Sign(n) == IF n > 0 THEN 1 ELSE IF n < 0 THEN -1 ELSE 0

\* every square strictly between the asked piece and the asked square, which
\* lies on a line or a diagonal through the piece, is empty
BetweenEmpty ==
    \A k \in 1..(Max(Abs(AskedOffset[1]), Abs(AskedOffset[2])) - 1) :
        get_point(Cur, pieces[reply.unit].x + k * Sign(AskedOffset[1]),
                  pieces[reply.unit].y + k * Sign(AskedOffset[2])) = None

OnLine == AskedOffset[1] = 0 \/ AskedOffset[2] = 0

OnDiagonal == Abs(AskedOffset[1]) = Abs(AskedOffset[2])

\* what the claim says a rook, bishop or queen may do
SlidingRule ==
    /\ CASE pieces[reply.unit].name = "rock" -> OnLine
         [] pieces[reply.unit].name = "bishop" -> OnDiagonal
         [] pieces[reply.unit].name = "queen" -> OnLine \/ OnDiagonal
    /\ BetweenEmpty
    /\ FinalOpen

\* C6: for a rook, bishop or queen and a square inside the board other than
\* its own, is_legal_move is true exactly if the square is on the piece's rank
\* or file (rook), diagonal (bishop) or either (queen), every square strictly
\* between is empty, and the square is empty or holds an enemy piece.
C6_Sliding ==
    (AskedMove /\ pieces[reply.unit].name \in {"rock", "bishop", "queen"}
               /\ AskedOffset # <<0, 0>>)
        => Answered(SlidingRule)

\* a rook on (1, 1) with a pawn of its own on (1, 2) was asked for (1, 3) and
\* the answer was false
C6_Witness ==
    /\ AskedMove
    /\ pieces[reply.unit].name = "rock"
    /\ Square(reply.unit) = <<1, 1>>
    /\ get_point(Cur, 1, 2) # None
    /\ Owner(get_point(Cur, 1, 2)) = Owner(reply.unit)
    /\ reply.to = <<1, 3>>
    /\ Answered(FALSE)

\* the forward direction of the asked pawn
Forward == IF Owner(reply.unit) = 0 THEN 1 ELSE -1

\* the asked pawn stands on the rank its player's pawns start on
OnStartRank == pieces[reply.unit].y = (IF Owner(reply.unit) = 0 THEN 2 ELSE 7)

OneForward == AskedOffset = <<0, Forward>> /\ AskedFinal = None

TwoForward ==
    /\ AskedOffset = <<0, 2 * Forward>>
    /\ get_point(Cur, reply.to[1], reply.to[2] - Forward) = None
    /\ AskedFinal = None

DiagonalCapture ==
    /\ Abs(AskedOffset[1]) = 1
    /\ AskedOffset[2] = Forward
    /\ AskedFinal # None
    /\ Owner(AskedFinal) # Owner(reply.unit)

AskedPawn == AskedMove /\ pieces[reply.unit].name = "pawn"

\* C7 (as claimed): a pawn's move to a square inside the board is legal
\* exactly if it is one square forward onto an empty square, two squares
\* forward with both squares empty, or one square diagonally forward onto an
\* enemy piece.
C7_PawnAsClaimed ==
    AskedPawn => Answered(OneForward \/ TwoForward \/ DiagonalCapture)

\* C7 (amended): as claimed, but the two squares forward are legal only for a
\* pawn that stands on its start rank (y = 2 for player 0, y = 7 for player 1).
C7_Pawn ==
    AskedPawn => Answered(OneForward \/ (OnStartRank /\ TwoForward) \/ DiagonalCapture)

\* a pawn off its start rank was asked for the square two ahead of it, that
\* square and the one before it being empty, and the answer was false
C7_Witness ==
    /\ AskedPawn
    /\ ~OnStartRank
    /\ TwoForward
    /\ Answered(FALSE)

\* what the claim says a knight or a king may do
StepRule ==
    /\ CASE pieces[reply.unit].name = "knight" ->
                {Abs(AskedOffset[1]), Abs(AskedOffset[2])} = {1, 2}
         [] pieces[reply.unit].name = "king" ->
                Max(Abs(AskedOffset[1]), Abs(AskedOffset[2])) = 1
    /\ FinalOpen

\* C8: for a knight or a king and a square inside the board, is_legal_move is
\* true exactly if the offset is one of the 8 L-shaped offsets (knight) or one
\* of the 8 unit offsets (king) and the square is empty or holds an enemy
\* piece, whatever stands on other squares; and for no kind of piece is a move
\* onto a square that holds a piece of the same player legal.
C8_KnightKing ==
    AskedMove =>
        /\ (pieces[reply.unit].name \in {"knight", "king"}) => Answered(StepRule)
        /\ (AskedFinal # None /\ Owner(AskedFinal) = Owner(reply.unit))
                => ~IsTrue(reply)

\* a knight with a pawn next to it was asked for a square a knight's move away
\* that is not the pawn's, and the answer was true
C8_Witness ==
    /\ AskedMove
    /\ pieces[reply.unit].name = "knight"
    /\ Len(get_pieces(Cur)) = 2
    /\ \E s \in Squares :
        /\ get_point(Cur, s[1], s[2]) \notin {None, reply.unit}
        /\ Max(Abs(s[1] - pieces[reply.unit].x), Abs(s[2] - pieces[reply.unit].y)) = 1
        /\ s # reply.to
    /\ Answered(TRUE)

----------------------------------------------------------------------------
(* Properties of legal_moves and is_in_check *)

\* the squares inside the board, other than the piece's own, for which the
\* piece's is_legal_move returns true
LegalSquares(u) ==
    {s \in Squares \ {Square(u)} : IsTrue(is_legal_move(Cur, pieces[u], s[1], s[2]))}

\* C9: legal_moves() returns exactly the squares inside the board, other than
\* the piece's own, for which is_legal_move returns true, each of them once,
\* and no square outside the board.
C9_LegalMoves ==
    (reply.op = "legal_moves") =>
        /\ Elems(reply.squares) = LegalSquares(reply.unit)
        /\ Len(reply.squares) = Cardinality(LegalSquares(reply.unit))
        /\ \A k \in 1..Len(reply.squares) :
            reply.squares[k][1] \in 1..8 /\ reply.squares[k][2] \in 1..8

\* a queen near the corner was asked for its legal moves and got more than
\* eight squares, on lines and on diagonals
C9_Witness ==
    /\ reply.op = "legal_moves"
    /\ pieces[reply.unit].name = "queen"
    /\ Len(reply.squares) > 8
    /\ \E k \in 1..Len(reply.squares) : reply.squares[k][1] = pieces[reply.unit].x
    /\ \E k \in 1..Len(reply.squares) :
        reply.squares[k][1] # pieces[reply.unit].x /\ reply.squares[k][2] # pieces[reply.unit].y

\* C10: is_in_check(player) returns true exactly if the other player's king is
\* on the board and a piece of player has is_legal_move true for that king's
\* square; with that king absent it returns false.
C10_InCheck ==
    (reply.op = "is_in_check") =>
        /\ reply.ret = Attacked(Cur, reply.player)
        /\ (KingSquares(Cur, 1 - reply.player) = {}) => ~reply.ret

\* is_in_check(player) was asked with the other player's king attacked, and
\* returned true
C10_Witness ==
    /\ reply.op = "is_in_check"
    /\ KingSquares(Cur, 1 - reply.player) # {}
    /\ reply.ret

----------------------------------------------------------------------------
(* Properties of game_not_over *)

\* the kings of both players that stand on the grid of m
Kings(m) == KingSquares(m, 0) \cup KingSquares(m, 1)

\* what the claim says game_not_over returns
NotOverRule(m) == Cardinality(Kings(m)) = 2 /\ ~MateRule(m)

\* C11: game_not_over() returns true exactly if two kings are on the board and
\* is_in_checkmate() is false; with a king absent it returns false whatever
\* the checkmate search would say; on the standard opening with an empty
\* history it returns true; and the loop of game() has ended only where the
\* rule is false.
C11_GameNotOver ==
    /\ game_not_over(Cur).ret = NotOverRule(Cur)
    /\ (Cardinality(Kings(Cur)) < 2) => ~game_not_over(Cur).ret
    /\ (Len(moves) = 0 /\ Cur = setup_standard_map) => game_not_over(Cur).ret
    /\ (pc = "done") => ~NotOverRule(Cur)

\* the loop has ended on game_not_over() false with both kings on the board,
\* the side to move being checkmated
C11_Witness ==
    /\ pc = "done"
    /\ call.op = "game_not_over"
    /\ Cardinality(Kings(Cur)) = 2
    /\ MateRule(Cur)
    /\ ~game_not_over(Cur).ret

----------------------------------------------------------------------------
(* Properties of pawn_transform *)

\* the pawns on the grid of m that stand on rank 1 or 8
Eligible(m) ==
    {u \in Elems(get_pieces(m)) : m.pieces[u].name = "pawn" /\ m.pieces[u].y \in {1, 8}}

\* the offsets of a rook's and of a bishop's pattern together
QueenOffsets ==
    {o \in (-8..8) \X (-8..8) :
        o # <<0, 0>> /\ (o[1] = 0 \/ o[2] = 0 \/ Abs(o[1]) = Abs(o[2]))}

\* the piece u of b is in a the same object on the same square with the same
\* owner, now a queen that moves as one
Promoted(b, a, u) ==
    /\ a.pieces[u].name = "queen"
    /\ a.pieces[u].x = b.pieces[u].x
    /\ a.pieces[u].y = b.pieces[u].y
    /\ a.pieces[u].player = b.pieces[u].player
    /\ Elems(a.pieces[u].movement) = QueenOffsets

\* what the claim says pawn_transform makes (a) of a model (b)
PromotesOne(b, a) ==
    IF Eligible(b) = {} THEN a = b
    ELSE /\ a.chess_map = b.chess_map
         /\ a.moves = b.moves
         /\ DOMAIN a.pieces = DOMAIN b.pieces
         /\ \E u \in Eligible(b) :
                /\ Promoted(b, a, u)
                /\ \A v \in DOMAIN b.pieces \ {u} : a.pieces[v] = b.pieces[v]

\* the model as move_unit left it in the turn the step takes
AsMoved == move_unit(Cur, moves'[Len(moves')][2], moves'[Len(moves')][3])

\* C12: a call of pawn_transform() promotes at most one piece: with a pawn on
\* rank 1 or 8, exactly one such pawn becomes a queen in place (same object,
\* square and owner, moving as rook and bishop together) and every other
\* piece, every grid slot and the history stay as they were; with no such pawn
\* the call changes nothing.  It holds of a call on any map and of the call
\* each turn of game() makes after move_unit.
C12_PawnTransform ==
    /\ [][(call'.op = "pawn_transform" /\ pc = "loop") => PromotesOne(Cur, CurNext)]_vars
    /\ [][TurnTaken => PromotesOne(AsMoved, CurNext)]_vars

\* pawn_transform() was called with two pawns on the last ranks: one of them
\* is a queen now and the other is still a pawn
C12_Witness ==
    /\ call.op = "pawn_transform"
    /\ Cardinality(Eligible(Cur)) = 1
    /\ \E u \in Elems(get_pieces(Cur)) :
        /\ pieces[u].name = "queen"
        /\ pieces[u].y \in {1, 8}
        /\ Elems(pieces[u].movement) = QueenOffsets

----------------------------------------------------------------------------
(* Properties of sequences of move_unit, undo_move, pawn_transform and
   is_in_checkmate calls *)

\* C13: undo_move() on an empty history fails with an error, it is no silent
\* no-op, and it leaves the grid, every piece's coordinates and the empty
\* history as they were.
C13_UndoOnEmpty ==
    [][(call'.op = "undo_move" /\ Len(moves) = 0) =>
            /\ call'.exc
            /\ pc' = "crashed"
            /\ CurNext = Cur]_vars

\* undo_move() was called on the empty history of the standard map, raised,
\* and the map is the standard map still
C13_Witness ==
    /\ call.op = "undo_move"
    /\ call.exc
    /\ pc = "crashed"
    /\ Cur = setup_standard_map

\* the grid slots that hold the piece u
SlotsOf(u) == {i \in 0..63 : chess_map[i] = u}

\* the slot of the coordinates a piece stores
StoredSlot(u) == (pieces[u].x - 1) * 8 + (pieces[u].y - 1)

\* C14: on the fresh standard map and after any sequence of legal move_unit
\* calls, undo_move calls on a non-empty history, pawn_transform calls and
\* is_in_checkmate calls, every piece object is in at most one grid slot, and
\* the coordinates a piece on the grid stores are those of its slot.
C14_BoardConsistent ==
    /\ \A u \in DOMAIN pieces : Cardinality(SlotsOf(u)) <= 1
    /\ \A i \in 0..63 : (chess_map[i] # None) => (StoredSlot(chess_map[i]) = i)

\* a pawn took twice, reached rank 8 and was made a queen, and undo_move()
\* has put it back on rank 7, the piece it took last being on the grid again
C14_Witness ==
    /\ call.op = "undo_move"
    /\ ~call.exc
    /\ Len(moves) = MaxOps - 1
    /\ moves[Len(moves)][1] # None
    /\ \E u \in Elems(get_pieces(Cur)) :
        /\ pieces[u].name = "queen"
        /\ pieces[u].player = 0
        /\ pieces[u].y = 7
    /\ Len(get_pieces(Cur)) = 31

\* the grid the history makes of a grid: for each entry from the k-th on, what
\* stands on its source square goes to its destination square
RECURSIVE ReplayGrid(_, _, _)
ReplayGrid(grid, history, k) ==
    IF k > Len(history) THEN grid
    ELSE ReplayGrid(
            [grid EXCEPT
                ![(history[k][3][1] - 1) * 8 + (history[k][3][2] - 1)] =
                    grid[(history[k][2][1] - 1) * 8 + (history[k][2][2] - 1)],
                ![(history[k][2][1] - 1) * 8 + (history[k][2][2] - 1)] = None],
            history, k + 1)

\* the step is a move_unit call: one entry is appended, recording what stood
\* on the destination, the source and the destination
Appends ==
    moves' = Append(moves, <<get_point(Cur, call'.to[1], call'.to[2]),
                             Square(call'.unit), call'.to>>)

\* the step is an undo_move call: the last entry is gone and no other
Pops ==
    /\ ~call'.exc
    /\ Len(moves') = Len(moves) - 1
    /\ \A k \in 1..Len(moves') : moves'[k] = moves[k]

\* C16: each move_unit appends exactly one entry (the piece that stood on the
\* destination or none, the source, the destination) and leaves the earlier
\* entries alone; each undo_move on a non-empty history removes exactly the
\* last entry; the other calls leave the history alone, so its length is the
\* number of move_unit calls less the number of undo_move calls; and the grid
\* is at any time the standard grid with the moves of the history made on it,
\* so k undo_move calls after k move_unit calls give back the grid and the
\* history that preceded the first of them.
C16_HistoryStack ==
    /\ [][(call'.op = "move_unit") => Appends]_vars
    /\ [][(call'.op = "undo_move" /\ Len(moves) > 0) => Pops]_vars
    /\ [][(call'.op \in {"pawn_transform", "is_in_checkmate"}) => moves' = moves]_vars
    /\ [](chess_map = ReplayGrid(setup_standard_map.chess_map, moves, 1))
    /\ []((Len(moves) = 0) =>
            \A u \in DOMAIN pieces :
                Square(u) = <<setup_standard_map.pieces[u].x, setup_standard_map.pieces[u].y>>)

\* every move has been taken back: the last call was undo_move(), the history
\* is empty and all 32 pieces stand on the grid as the standard map has them
C16_Witness ==
    /\ call.op = "undo_move"
    /\ ~call.exc
    /\ Len(moves) = 0
    /\ Len(get_pieces(Cur)) = 32
    /\ chess_map = setup_standard_map.chess_map

\* the entries of the history that record a captured piece
CaptureEntries == {k \in 1..Len(moves) : moves[k][1] # None}

\* C17: from the standard map, after any sequence of legal move_unit and
\* undo_move calls, the pieces on the grid and the history entries that record
\* a captured piece are 32 together; a captured piece is in no grid slot and
\* recorded by exactly one entry; and no piece is both on the grid and
\* recorded as captured.
C17_PieceConservation ==
    /\ Cardinality({i \in 0..63 : chess_map[i] # None}) + Cardinality(CaptureEntries) = 32
    /\ \A k \in CaptureEntries :
        /\ SlotsOf(moves[k][1]) = {}
        /\ \A j \in CaptureEntries : (moves[j][1] = moves[k][1]) => (j = k)
    /\ \A u \in DOMAIN pieces :
        (SlotsOf(u) = {}) <=> (\E k \in CaptureEntries : moves[k][1] = u)

\* after two captures undo_move() has put the piece captured last back on the
\* grid: one piece is recorded as captured and 31 stand on the grid
C17_Witness ==
    /\ call.op = "undo_move"
    /\ ~call.exc
    /\ Len(moves) = MaxOps - 1
    /\ Cardinality(CaptureEntries) = 1
    /\ CaptureEntries # {Len(moves)}
    /\ Cardinality({i \in 0..63 : chess_map[i] # None}) = 31

----------------------------------------------------------------------------
(* The end of the search of is_in_checkmate *)

\* the number of entries e in a trace
Count(trace, e) == Len(SelectSeq(trace, LAMBDA x : x = e))

\* the pieces of the last mover that have a legal move onto the square of the
\* other side's king
Checkers(m) ==
    {s \in SquaresOf(m, m.pieces[LastUnit(m)].player) :
        \E ks \in KingSquares(m, 1 - m.pieces[LastUnit(m)].player) :
            IsTrue(is_legal_move(m, m.pieces[get_point(m, s[1], s[2])], ks[1], ks[2]))}

\* C15 (as claimed): within one call of is_in_checkmate(), once a trial move
\* has escaped the check the result is false and no further move_unit is made
\* before the call returns, however many pieces of the last mover attack the
\* king.
C15_EarlyStopAsClaimed ==
    (call.op = "is_in_checkmate") =>
        \A i \in 1..Len(call.trace) :
            (call.trace[i] = "escape") =>
                /\ ~call.ret
                /\ \A j \in (i + 1)..Len(call.trace) : call.trace[j] # "move_unit"

\* C15 (amended): once a trial move has escaped the check, the search opened
\* for the attacking piece at hand makes no further move_unit: after the
\* trial's undo_move the call returns or goes on to the next attacking piece
\* of the last mover, whose search starts anew.  One search is opened for
\* each piece of the last mover that attacks the king; the result is false
\* after an escape; and with one attacking piece no move_unit follows the
\* escape at all.
C15_EarlyStop ==
    (call.op = "is_in_checkmate" /\ Len(moves) > 0 /\ pc # "asked") =>
        /\ Count(call.trace, "attack") = Cardinality(Checkers(Cur))
        /\ \A i \in 1..Len(call.trace) :
            (call.trace[i] = "escape") =>
                /\ ~call.ret
                /\ call.trace[i + 1] = "undo_move"
                /\ (i + 2 <= Len(call.trace)) => (call.trace[i + 2] = "attack")
                /\ (Cardinality(Checkers(Cur)) = 1) => (i + 1 = Len(call.trace))

\* the bishop has taken on h5 and uncovered the rook: two pieces attack the
\* king on e8, the first search ended at an escape, and the second search made
\* its trial moves after it
C15_Witness ==
    /\ call.op = "is_in_checkmate"
    /\ Len(moves) > 0
    /\ Cardinality(Checkers(Cur)) = 2
    /\ Count(call.trace, "attack") = 2
    /\ Count(call.trace, "escape") = 2
    /\ ~call.ret

----------------------------------------------------------------------------
(* Promotion in the loop of game() *)

\* C18: in the loop of game() from the standard map, at the end of every
\* iteration (move_unit, then pawn_transform) no pawn stands on rank 1 or 8,
\* and so at every call of pawn_transform at most one pawn, the one that has
\* just moved, stands there.
C18_OnePromotionSuffices ==
    /\ [](Eligible(Cur) = {})
    /\ [][TurnTaken =>
            /\ Cardinality(Eligible(AsMoved)) <= 1
            /\ \A u \in Eligible(AsMoved) : Square(u) # <<AsMoved.pieces[u].x, AsMoved.pieces[u].y>>]_vars

\* a piece that started the game as a pawn stands on rank 8 as a queen
C18_Witness ==
    \E u \in Elems(get_pieces(Cur)) :
        /\ setup_standard_map.pieces[u].name = "pawn"
        /\ pieces[u].name = "queen"
        /\ pieces[u].y = 8
        /\ moves[Len(moves)][3] = Square(u)

----------------------------------------------------------------------------
(* The turns of game() *)

\* the piece the k-th entry of the history moved: what stood on its source
\* square once the entries before it were made on the standard grid
MoverOf(k) ==
    ReplayGrid(setup_standard_map.chess_map, SubSeq(moves, 1, k - 1), 1)
        [(moves[k][2][1] - 1) * 8 + (moves[k][2][2] - 1)]

\* C19: the players move strictly in turn, player 0 first: each iteration of
\* the loop appends one entry to the history and the evaluations of checkmate
\* and of the end of the game leave none, so after n iterations the history
\* has n entries, the player to move is n mod 2, and the i-th entry (from 0)
\* is a move of a piece of player i mod 2.
C19_TurnAlternation ==
    /\ [](turn = Len(moves) % 2)
    /\ [](\A k \in 1..Len(moves) :
            MoverOf(k) # None /\ Owner(MoverOf(k)) = (k - 1) % 2)
    /\ [][TurnTaken => (Len(moves') = Len(moves) + 1 /\ turn' = 1 - turn)]_vars
    /\ [][(~TurnTaken) => moves' = moves]_vars

\* five turns have been played, with a capture in the last one, and the sixth
\* would be player 1's
C19_Witness ==
    /\ Len(moves) = 5
    /\ moves[5][1] # None
    /\ turn = 1
    /\ Owner(MoverOf(5)) = 0
    /\ Owner(MoverOf(4)) = 1

----------------------------------------------------------------------------
(* The pawn's two squares forward *)

\* the square two ahead of the asked pawn
TwoAhead == <<pieces[reply.unit].x, pieces[reply.unit].y + 2 * Forward>>

\* C20: a pawn's advance of two squares to a square inside the board is legal
\* only if the pawn stands on the start rank of its own player (y = 2 for
\* player 0, y = 7 for player 1): for a pawn on any other rank, the other
\* player's start rank included, is_legal_move is false for the square two
\* ahead and legal_moves() does not list it.
C20_TwoSquaresFromStartRankOnly ==
    /\ (AskedPawn /\ reply.to = TwoAhead /\ ~OnStartRank) => Answered(FALSE)
    /\ (AskedPawn /\ reply.to = TwoAhead /\ IsTrue(reply)) => OnStartRank
    /\ (reply.op = "legal_moves" /\ pieces[reply.unit].name = "pawn" /\ ~OnStartRank)
            => ~Has(reply.squares, TwoAhead)

\* a pawn on the other player's start rank, nothing before it, was asked for
\* its legal moves and got the one square ahead of it and no other
C20_Witness ==
    /\ reply.op = "legal_moves"
    /\ pieces[reply.unit].name = "pawn"
    /\ pieces[reply.unit].y = (IF Owner(reply.unit) = 0 THEN 7 ELSE 2)
    /\ reply.squares = << <<pieces[reply.unit].x, pieces[reply.unit].y + Forward>> >>

----------------------------------------------------------------------------
(* The players that choose their moves themselves *)

\* the last call asked a smart player for a move
AskedSmart == reply.op \in {"smart_ai", "SmartAI.move"}

\* both kings are on the board and the asked player has a legal move
CanMove ==
    /\ KingSquares(Cur, 0) # {}
    /\ KingSquares(Cur, 1) # {}
    /\ \E s \in SquaresOf(Cur, reply.player) : LegalSquares(get_point(Cur, s[1], s[2])) # {}

\* the pair the smart player returned
ChosenFrom == reply.squares[1]
ChosenTo == reply.squares[2]

\* C21: SmartAI.move and smart_ai, called with both kings on the board for a
\* player that has a legal move, raise nothing and return a pair (from, to)
\* where from holds a piece of that player and to is one of that piece's
\* legal moves; the pair is a move onto the enemy king's square whenever some
\* piece of the player has a legal move onto that square; and choosing the
\* move changes neither the board nor the history.
C21_SmartMove ==
    /\ []((AskedSmart /\ CanMove) =>
            /\ ~reply.exc
            /\ get_point(Cur, ChosenFrom[1], ChosenFrom[2]) # None
            /\ Owner(get_point(Cur, ChosenFrom[1], ChosenFrom[2])) = reply.player
            /\ ChosenTo \in LegalSquares(get_point(Cur, ChosenFrom[1], ChosenFrom[2]))
            /\ Attacked(Cur, reply.player) => (ChosenTo \in KingSquares(Cur, 1 - reply.player)))
    /\ [][(reply'.op \in {"smart_ai", "SmartAI.move"}) => CurNext = Cur]_vars

\* the player asked has several pieces with legal moves, one of them onto the
\* enemy king's square, and SmartAI.move returned that one
C21_Witness ==
    /\ reply.op = "SmartAI.move"
    /\ CanMove
    /\ ~reply.exc
    /\ ChosenTo \in KingSquares(Cur, 1 - reply.player)
    /\ \E s \in SquaresOf(Cur, reply.player) :
        /\ s # ChosenFrom
        /\ LegalSquares(get_point(Cur, s[1], s[2])) # {}

----------------------------------------------------------------------------
(* The notation of the history *)

\* the text of an entry is file letter and rank digit of the source, the
\* separator, and file letter and rank digit of the destination
RendersEntry(entry) ==
    coordinates_to_human_notation(entry) =
        <<x_names[entry[2][1]], y_names[entry[2][2]],
          IF entry[1] # None THEN "x" ELSE "-",
          x_names[entry[3][1]], y_names[entry[3][2]]>>

\* the text of an entry parses back to the entry's source and destination
ParsesBack(entry) ==
    human_notation_to_coordinates(coordinates_to_human_notation(entry))
        = Parsed(entry[2], entry[3])

\* C22 (as claimed): for every entry of the history, which has its source and
\* destination inside the board, coordinates_to_human_notation gives the file
\* letter a-h and the rank digit of each square, joined by "x" if the entry
\* records a captured piece and by "-" otherwise, and
\* human_notation_to_coordinates of that text gives back the source and the
\* destination, for capturing and non-capturing moves alike.
C22_NotationRoundTrip ==
    \A k \in 1..Len(moves) : RendersEntry(moves[k]) /\ ParsesBack(moves[k])

====
